---- MODULE Spec2Model ----
(***************************************************************************)
(* Model of the emoji-sentence language server                             *)
(* (src/vscode/ss-won/server/index.ts).                                    *)
(*                                                                         *)
(* A JavaScript string is modelled as the sequence of its UTF-16 code      *)
(* units (integers 0..65535): String.length is Len, the regular expression *)
(* of checkIsStartWithEmoji has no `u` flag and therefore matches code     *)
(* units, and split/trim/includes work on code units as well.              *)
(*                                                                         *)
(* An optional property of a JavaScript object is a record field that is   *)
(* present or absent in the record's DOMAIN.                               *)
(***************************************************************************)
EXTENDS Integers, Sequences, FiniteSets, TLC

VARIABLES
    initialized,                                \* the client has sent its initialize request
    hasDiagnosticRelatedInformationCapability,  \* index.ts:23
    documents,                                  \* the TextDocuments manager: uri -> full text
    published,                                  \* what connection.sendDiagnostics last sent, per uri
    reply                                       \* the value the last request handler returned

vars == <<initialized, hasDiagnosticRelatedInformationCapability, documents, published, reply>>

-----------------------------------------------------------------------------
(* Bounds *)

\* longest document text (in code units) of the whole-server specification
MaxLen == 2
\* longest document text (in code units) of the single-document specification
MaxOpenLen == 2

-----------------------------------------------------------------------------
(* JavaScript string primitives used by the source *)

\* WhiteSpace and LineTerminator code units, as String.prototype.trim strips them
IsWhiteSpace(c) ==
    \/ c \in {9, 10, 11, 12, 13, 32, 160, 5760, 8232, 8233, 8239, 8287, 12288, 65279}
    \/ (c >= 8192 /\ c <= 8202)

RECURSIVE trimStart(_)
trimStart(s) ==
    IF s = <<>> \/ ~IsWhiteSpace(Head(s)) THEN s ELSE trimStart(Tail(s))

RECURSIVE trimEnd(_)
trimEnd(s) ==
    IF s = <<>> \/ ~IsWhiteSpace(s[Len(s)]) THEN s ELSE trimEnd(SubSeq(s, 1, Len(s) - 1))

\* String.prototype.trim
trim(s) == trimEnd(trimStart(s))

\* String.prototype.split(sep) for a one-code-unit separator
RECURSIVE split(_, _)
split(s, sep) ==
    IF \A i \in 1..Len(s) : s[i] # sep
    THEN <<s>>
    ELSE LET i == CHOOSE k \in 1..Len(s) : s[k] = sep /\ \A j \in 1..(k - 1) : s[j] # sep
         IN  <<SubSeq(s, 1, i - 1)>> \o split(SubSeq(s, i + 1, Len(s)), sep)

\* Lower-case mapping of one code unit: A-Z, and the letter-like symbols of
\* U+2000-U+3300 whose lower case lies outside that block (OHM SIGN,
\* KELVIN SIGN, ANGSTROM SIGN).  "I" is left out of every alphabet below:
\* its lower case depends on the host locale.
lowerCaseUnit(c) ==
    IF c >= 65 /\ c <= 90 THEN c + 32
    ELSE IF c = 8486 THEN 969
    ELSE IF c = 8490 THEN 107
    ELSE IF c = 8491 THEN 229
    ELSE c

\* String.prototype.toLowerCase / toLocaleLowerCase
toLowerCase(s) == [i \in 1..Len(s) |-> lowerCaseUnit(s[i])]

\* Mutant of includes: a prefix test (String.prototype.startsWith)
includesAsPrefix(s, sub) ==
    Len(sub) <= Len(s) /\ SubSeq(s, 1, Len(sub)) = sub

\* String.prototype.includes
includes(s, sub) ==
    \E i \in 0..(Len(s) - Len(sub)) : SubSeq(s, i + 1, i + Len(sub)) = sub

-----------------------------------------------------------------------------
(* checkIsStartWithEmoji, index.ts:97-100 *)

\* Mutant of emojiRegexTest: the expression without its ^ anchor
emojiRegexTestUnanchored(t) ==
    \E i \in 1..Len(t) :
        \/ t[i] = 169
        \/ t[i] = 174
        \/ (t[i] >= 8192 /\ t[i] <= 13056)
        \/ /\ i < Len(t)
           /\ t[i] \in {55356, 55357, 55358}
           /\ t[i + 1] >= 53248 /\ t[i + 1] <= 57343

\* /^(U+00A9 | U+00AE | [U+2000-U+3300] | U+D83C[U+D000-U+DFFF] |
\*    U+D83D[U+D000-U+DFFF] | U+D83E[U+D000-U+DFFF])/g
\* matched against code units (the expression has no `u` flag); the
\* expression object is created anew by every call, so the `g` flag's
\* lastIndex is always 0 when test runs.
emojiRegexTest(t) ==
    /\ Len(t) >= 1
    /\ \/ t[1] = 169
       \/ t[1] = 174
       \/ (t[1] >= 8192 /\ t[1] <= 13056)
       \/ /\ Len(t) >= 2
          /\ t[1] \in {55356, 55357, 55358}
          /\ t[2] >= 53248 /\ t[2] <= 57343

checkIsStartWithEmoji(text) == emojiRegexTest(trim(text))

-----------------------------------------------------------------------------
(* validateTextDocument, index.ts:52-95 *)

\* Mutant of lineRange: the range ends at the length of the trimmed line
lineRangeTrimmed(line, text) ==
    [start |-> [line |-> line, character |-> 0],
     end   |-> [line |-> line, character |-> Len(trim(text))]]

\* range: { start: { line, character: 0 }, end: { line, character: text.length } }
lineRange(line, text) ==
    [start |-> [line |-> line, character |-> 0],
     end   |-> [line |-> line, character |-> Len(text)]]

\* Mutant of withRelatedInformation: attached whatever the flag says
withRelatedInformationAlways(diagnostic, uri, cap) ==
    diagnostic @@
    [relatedInformation |->
       << [location |-> [uri |-> uri, range |-> diagnostic.range],
           message  |-> "sentence syntax error"] >>]

\* index.ts:79-88: the Error diagnostic, with relatedInformation when the
\* capability flag is set
withRelatedInformation(diagnostic, uri, cap) ==
    IF cap
    THEN diagnostic @@
         [relatedInformation |->
            << [location |-> [uri |-> uri, range |-> diagnostic.range],
                message  |-> "sentence syntax error"] >>]
    ELSE diagnostic

\* Mutant of lineDiagnostics: no `return` after the Warning is pushed, so
\* the emoji check runs on the empty line as well
lineDiagnosticsNoReturn(text, line, uri, cap) ==
    LET warning ==
            IF Len(trim(text)) = 0
            THEN << [severity |-> "Warning",
                     range    |-> [start |-> [line |-> line, character |-> 0],
                                   end   |-> [line |-> line, character |-> Len(text)]],
                     message  |-> "sentence is empty."] >>
            ELSE << >>
        error ==
            IF ~emojiRegexTest(trim(text))
            THEN << [severity |-> "Error",
                     range    |-> [start |-> [line |-> line, character |-> 0],
                                   end   |-> [line |-> line, character |-> Len(text)]],
                     message  |-> "sentence is not started with emoji!!!U+1F635"] @@
                    ( IF cap
                      THEN [relatedInformation |->
                              << [location |->
                                    [uri   |-> uri,
                                     range |-> [start |-> [line |-> line, character |-> 0],
                                                end   |-> [line |-> line,
                                                           character |-> Len(text)]]],
                                  message |-> "sentence syntax error"] >>]
                      ELSE << >> ) >>
            ELSE << >>
    IN  warning \o error

\* index.ts:57-91: what one call of the forEach callback pushes onto
\* `diagnostics` for the line `text` with 0-based index `line`.  The
\* Error message ends with the character U+1F635, spelled out here.
lineDiagnostics(text, line, uri, cap) ==
    LET trimmedText == trim(text)
    IN  IF Len(trimmedText) = 0
        THEN << [severity |-> "Warning",
                 range    |-> lineRange(line, text),
                 message  |-> "sentence is empty."] >>
        ELSE IF ~checkIsStartWithEmoji(text)
        THEN << withRelatedInformation(
                  [severity |-> "Error",
                   range    |-> lineRange(line, text),
                   message  |-> "sentence is not started with emoji!!!U+1F635"],
                  uri, cap) >>
        ELSE << >>

\* .forEach((text, line) => ...) over lines[k..], pushing in index order
RECURSIVE forEachLine(_, _, _, _)
forEachLine(lines, k, uri, cap) ==
    IF k > Len(lines)
    THEN << >>
    ELSE lineDiagnostics(lines[k], k - 1, uri, cap) \o forEachLine(lines, k + 1, uri, cap)

\* the `diagnostics` array that validateTextDocument hands to sendDiagnostics
validateTextDocument(text, uri, cap) == forEachLine(split(text, 10), 1, uri, cap)

\* Mutant of sendDiagnostics: the new diagnostics are added to the ones
\* published before
sendDiagnosticsAppend(pub, uri, diagnostics) ==
    [u \in (DOMAIN pub) \cup {uri} |->
        IF u = uri
        THEN (IF uri \in DOMAIN pub THEN pub[uri] ELSE << >>) \o diagnostics
        ELSE pub[u]]

\* connection.sendDiagnostics({ uri, diagnostics }): the client's set for uri
\* becomes `diagnostics`
sendDiagnostics(pub, uri, diagnostics) ==
    [u \in (DOMAIN pub) \cup {uri} |-> IF u = uri THEN diagnostics ELSE pub[u]]

-----------------------------------------------------------------------------
(* onCompletion, index.ts:103-120 *)

\* const labels = ['U+1F4CC Notice', 'U+1F463 History', 'U+1F525 Hot']
labels ==
    << <<55357, 56524, 32, 78, 111, 116, 105, 99, 101>>,
       <<55357, 56419, 32, 72, 105, 115, 116, 111, 114, 121>>,
       <<55357, 56613, 32, 72, 111, 116>> >>

\* label.toLowerCase().split(' ').at(-1)
lastWord(label) ==
    LET words == split(toLowerCase(label), 32) IN words[Len(words)]

\* Mutant of currentTextOf: the line is trimmed but not lower-cased
currentTextOfNoLowerCase(docs, uri, line) ==
    IF uri \notin DOMAIN docs
    THEN [defined |-> FALSE]
    ELSE LET lines == split(docs[uri], 10)
         IN  IF line < 0 \/ line >= Len(lines)
             THEN [defined |-> FALSE]
             ELSE [defined |-> TRUE, text |-> trim(lines[line + 1])]

\* index.ts:104-106: currentText, or "undefined" when the document or the
\* line does not exist; [defined |-> FALSE] stands for undefined
currentTextOf(docs, uri, line) ==
    IF uri \notin DOMAIN docs
    THEN [defined |-> FALSE]
    ELSE LET lines == split(docs[uri], 10)
         IN  IF line < 0 \/ line >= Len(lines)
             THEN [defined |-> FALSE]
             ELSE [defined |-> TRUE, text |-> trim(toLowerCase(lines[line + 1]))]

\* index.ts:110-113: the condition of the conditional expression;
\* `currentText && (...)` is falsy for undefined and for the empty string
completionCondition(cur) ==
    /\ cur.defined
    /\ Len(cur.text) # 0
    /\ \/ Len(cur.text) = 0
       \/ checkIsStartWithEmoji(cur.text)
       \/ \E i \in 1..Len(labels) : includes(lastWord(labels[i]), cur.text)

\* index.ts:114-118
allItems ==
    [index \in 1..Len(labels) |-> [label |-> labels[index], kind |-> "Text", data |-> index]]

completionItems(docs, uri, line) ==
    IF completionCondition(currentTextOf(docs, uri, line)) THEN allItems ELSE << >>

-----------------------------------------------------------------------------
(* onCompletionResolve, index.ts:124-139 *)

\* Mutant of completionResolve: no `break` in the switch, so a case falls
\* through to the ones below it
completionResolveFallThrough(item) ==
    IF item.data \in {1, 2, 3}
    THEN [detail |-> "Hot", documentation |-> "new and exciting things."] @@ item
    ELSE item

\* switch (item.data) with strict equality; an assignment to item.detail
\* or item.documentation replaces a value the item came with
completionResolve(item) ==
    IF item.data = 1
    THEN [detail |-> "Notice",
          documentation |-> "notification or warning of something."] @@ item
    ELSE IF item.data = 2
    THEN [detail |-> "History",
          documentation |->
            "the whole series of past events connected with someone or something."] @@ item
    ELSE IF item.data = 3
    THEN [detail |-> "Hot", documentation |-> "new and exciting things."] @@ item
    ELSE item

-----------------------------------------------------------------------------
(* Inputs *)

\* every string of at most n code units over the alphabet chars
Strings(chars, n) == UNION { [1..k -> chars] : k \in 0..n }

URIs == {"file:///a.md", "file:///b.md"}

\* line feed, "h", U+2603
Chars == {10, 104, 9731}
Texts == Strings(Chars, MaxLen)

\* params.capabilities of the initialize request: each level of
\* textDocument.publishDiagnostics.relatedInformation present or absent
ClientCapabilities ==
    { << >>,
      [textDocument |-> << >>],
      [textDocument |-> [publishDiagnostics |-> << >>]],
      [textDocument |-> [publishDiagnostics |-> [relatedInformation |-> FALSE]]],
      [textDocument |-> [publishDiagnostics |-> [relatedInformation |-> TRUE]]] }

\* cursor positions of a completion request
Positions == [line : 0..MaxLen, character : {0}]

\* items a client sends to completionItem/resolve: the items onCompletion
\* issued, items carrying another data tag, and items that already carry a
\* detail and a documentation
ResolveItems ==
    LET issued   == { allItems[i] : i \in 1..Len(allItems) }
        otherTag == { [allItems[1] EXCEPT !.data = d] : d \in {0, 4, 99} }
        resent   == { [detail |-> "Hot", documentation |-> "new and exciting things."] @@ it :
                        it \in { allItems[2], [allItems[3] EXCEPT !.data = 99] } }
    IN  issued \cup otherTag \cup resent

-----------------------------------------------------------------------------
(* The handlers *)

Init ==
    /\ initialized = FALSE
    /\ hasDiagnosticRelatedInformationCapability = FALSE
    /\ documents = << >>
    /\ published = << >>
    /\ reply = [kind |-> "none"]

\* index.ts:28-32
relatedInformationOf(capabilities) ==
    /\ "textDocument" \in DOMAIN capabilities
    /\ "publishDiagnostics" \in DOMAIN capabilities.textDocument
    /\ "relatedInformation" \in DOMAIN capabilities.textDocument.publishDiagnostics
    /\ capabilities.textDocument.publishDiagnostics.relatedInformation

\* index.ts:25-45.  The source has no guard of its own: `initialized`
\* records the rule of the protocol the connection speaks, that a client
\* sends initialize once, and sends nothing else before it is answered.
onInitialize(capabilities) ==
    /\ ~initialized
    /\ initialized' = TRUE
    /\ hasDiagnosticRelatedInformationCapability' = relatedInformationOf(capabilities)
    /\ reply' = [kind   |-> "initialize",
                 result |-> [capabilities |->
                               [textDocumentSync   |-> "Incremental",
                                completionProvider |-> [resolveProvider |-> TRUE]]]]
    /\ UNCHANGED <<documents, published>>

\* Mutant of onDidChangeContent: the handler resets the capability flag
onDidChangeContentResetsFlag(uri, text) ==
    /\ initialized
    /\ documents' = [u \in (DOMAIN documents) \cup {uri} |->
                       IF u = uri THEN text ELSE documents[u]]
    /\ published' = [u \in (DOMAIN published) \cup {uri} |->
                       IF u = uri
                       THEN forEachLine(split(text, 10), 1, uri,
                                        hasDiagnosticRelatedInformationCapability)
                       ELSE published[u]]
    /\ hasDiagnosticRelatedInformationCapability' = FALSE
    /\ UNCHANGED <<initialized, reply>>

\* index.ts:48-50: the document manager holds the new full text of uri when
\* the event fires; the handler validates it and publishes the result
onDidChangeContent(uri, text) ==
    /\ initialized
    /\ documents' = [u \in (DOMAIN documents) \cup {uri} |->
                       IF u = uri THEN text ELSE documents[u]]
    /\ published' = sendDiagnostics(published, uri,
                       validateTextDocument(text, uri,
                                            hasDiagnosticRelatedInformationCapability))
    /\ UNCHANGED <<initialized, hasDiagnosticRelatedInformationCapability, reply>>

\* index.ts:103-120
onCompletion(uri, position) ==
    /\ initialized
    /\ reply' = [kind     |-> "completion",
                 uri      |-> uri,
                 position |-> position,
                 items    |-> completionItems(documents, uri, position.line)]
    /\ UNCHANGED <<initialized, hasDiagnosticRelatedInformationCapability, documents, published>>

\* index.ts:124-139
onCompletionResolve(item) ==
    /\ initialized
    /\ reply' = [kind |-> "resolve", request |-> item, item |-> completionResolve(item)]
    /\ UNCHANGED <<initialized, hasDiagnosticRelatedInformationCapability, documents, published>>

Next ==
    \/ \E capabilities \in ClientCapabilities : onInitialize(capabilities)
    \/ \E uri \in URIs, text \in Texts : onDidChangeContent(uri, text)
    \/ \E uri \in URIs, position \in Positions : onCompletion(uri, position)
    \/ \E item \in ResolveItems : onCompletionResolve(item)

Spec == Init /\ [][Next]_vars

-----------------------------------------------------------------------------
(* One document, opened once, and completion requests in it: the          *)
(* validator and the completion provider as functions of the text, over a *)
(* larger alphabet.  The text does not change after the open, so a reply  *)
(* is always about the text the state holds.                              *)

\* line feed, space, "H", "h", "i", U+00A9, U+00AE, U+2000 (a white
\* space), U+212A (KELVIN SIGN, lower case "k"), U+3300, U+3301, U+D83D,
\* U+DCCC (a low surrogate), U+D000 (a Hangul syllable)
OpenChars ==
    {10, 32, 72, 104, 105, 169, 174, 8192, 8490, 13056, 13057, 55357, 56524, 53248}
OpenTexts == Strings(OpenChars, MaxOpenLen)
OpenPositions == [line : 0..MaxOpenLen, character : {0, 1}]

\* index.ts:46-50: the event fires when a document is first opened
OpenDocument(text) ==
    /\ DOMAIN documents = {}
    /\ onDidChangeContent("file:///a.md", text)

\* a completion request in the opened document
CompleteInDocument(position) ==
    /\ DOMAIN documents # {}
    /\ onCompletion("file:///a.md", position)

NextOpen ==
    \/ \E capabilities \in ClientCapabilities : onInitialize(capabilities)
    \/ \E text \in OpenTexts : OpenDocument(text)
    \/ \E position \in OpenPositions : CompleteInDocument(position)

SpecOpen == Init /\ [][NextOpen]_vars

-----------------------------------------------------------------------------
(* Vocabulary of the claims, written from their wording *)

\* the lines of the text held for uri
linesOf(uri) == split(documents[uri], 10)

\* the positions in the published sequence of uri of the diagnostics that
\* start on the 0-based line n
diagnosticsAt(uri, n) ==
    { k \in 1..Len(published[uri]) : published[uri][k].range.start.line = n }

\* the three fixed items, in order, with data tags 1, 2, 3
ThreeItems ==
    << [label |-> <<55357, 56524, 32, 78, 111, 116, 105, 99, 101>>,
        kind |-> "Text", data |-> 1],
       [label |-> <<55357, 56419, 32, 72, 105, 115, 116, 111, 114, 121>>,
        kind |-> "Text", data |-> 2],
       [label |-> <<55357, 56613, 32, 72, 111, 116>>,
        kind |-> "Text", data |-> 3] >>

\* "notice", "history", "hot"
LastWords ==
    { <<110, 111, 116, 105, 99, 101>>,
      <<104, 105, 115, 116, 111, 114, 121>>,
      <<104, 111, 116>> }

IsSubstringOfLastWord(t) ==
    \E w \in LastWords :
        \E i \in 1..Len(w), j \in 0..Len(w) : j >= i /\ SubSeq(w, i, j) = t

\* the prefix rule as the specification words it: U+00A9, U+00AE,
\* U+2000-U+33FF, or a supplementary character (a high surrogate followed
\* by a low surrogate) whose high surrogate is U+D83C, U+D83D or U+D83E
StartsAsWorded(t) ==
    /\ t # << >>
    /\ \/ t[1] \in {169, 174}
       \/ (t[1] >= 8192 /\ t[1] <= 13311)
       \/ /\ Len(t) >= 2
          /\ t[1] \in {55356, 55357, 55358}
          /\ t[2] >= 56320 /\ t[2] <= 57343

\* the prefix rule of the code: U+00A9, U+00AE, U+2000-U+3300, or one of
\* U+D83C, U+D83D, U+D83E followed by a code unit in U+D000-U+DFFF
StartsQualifying(t) ==
    /\ t # << >>
    /\ \/ t[1] \in {169, 174}
       \/ (t[1] >= 8192 /\ t[1] <= 13056)
       \/ /\ Len(t) >= 2
          /\ t[1] \in {55356, 55357, 55358}
          /\ t[2] >= 53248 /\ t[2] <= 57343

\* the reply answers a completion request on an existing line of a known document
CompletionOnLine ==
    /\ reply.kind = "completion"
    /\ reply.uri \in DOMAIN documents
    /\ reply.position.line < Len(linesOf(reply.uri))

\* the trimmed, lower-cased text of the line the request points at
CursorText == trim(toLowerCase(linesOf(reply.uri)[reply.position.line + 1]))

-----------------------------------------------------------------------------
(* Claims *)

\* C1: after any sequence of document-changed events, over any of the
\* URIs, the set last published for a URI is exactly the result of
\* validating the current full text of that URI: a publish replaces the
\* previous set, nothing of an earlier text is kept or merged in.
C1_PublishedIsLatestText ==
    /\ DOMAIN published = DOMAIN documents
    /\ \A uri \in DOMAIN documents :
          published[uri] =
            validateTextDocument(documents[uri], uri,
                                 hasDiagnosticRelatedInformationCapability)

C1_Witness ==
    /\ DOMAIN documents = URIs
    /\ documents["file:///a.md"] = <<9731>>
    /\ published["file:///a.md"] = << >>
    /\ documents["file:///b.md"] = <<104, 10>>
    /\ Len(published["file:///b.md"]) = 2

\* C2: the published sequence holds exactly one diagnostic for every line
\* (split on line feed) that is empty after trimming or fails the
\* emoji-prefix predicate, none for any other line, in strictly increasing
\* line order; so there are as many diagnostics as offending lines.
C2_OnePerOffendingLine ==
    \A uri \in DOMAIN published :
        LET lines == linesOf(uri)
            d     == published[uri]
            Offending(i) == trim(lines[i]) = << >> \/ ~checkIsStartWithEmoji(lines[i])
        IN  /\ Len(d) = Cardinality({ i \in 1..Len(lines) : Offending(i) })
            /\ \A i \in 1..Len(lines) :
                  Cardinality(diagnosticsAt(uri, i - 1)) = IF Offending(i) THEN 1 ELSE 0
            /\ \A k \in 1..(Len(d) - 1) :
                  d[k].range.start.line < d[k + 1].range.start.line

C2_Witness ==
    /\ "file:///a.md" \in DOMAIN published
    /\ documents["file:///a.md"] = <<169, 10>>
    /\ Len(published["file:///a.md"]) = 1
    /\ published["file:///a.md"][1].range.start.line = 1

\* C3: a line that is empty after trimming gets a Warning "sentence is
\* empty." over (i,0)-(i, length of the untrimmed line) and no Error (the
\* emoji check is not applied to it); a line that is not empty after
\* trimming and does not start with a qualifying emoji gets an Error
\* "sentence is not started with emoji!!!<U+1F635>" over the same range.  A
\* text ending in a line feed so ends with a Warning over (n,0)-(n,0).
C3_SeverityMessageRange ==
    \A uri \in DOMAIN published :
        LET lines == linesOf(uri)
            d     == published[uri]
            text  == documents[uri]
        IN  /\ \A i \in 1..Len(lines) :
                  \A k \in diagnosticsAt(uri, i - 1) :
                      /\ d[k].range = [start |-> [line |-> i - 1, character |-> 0],
                                       end   |-> [line |-> i - 1,
                                                  character |-> Len(lines[i])]]
                      /\ trim(lines[i]) = << >> =>
                            /\ d[k].severity = "Warning"
                            /\ d[k].message = "sentence is empty."
                      /\ trim(lines[i]) # << >> =>
                            /\ d[k].severity = "Error"
                            /\ d[k].message = "sentence is not started with emoji!!!U+1F635"
            /\ \A i \in 1..Len(lines) :
                  (trim(lines[i]) = << >> \/ ~checkIsStartWithEmoji(lines[i]))
                      => diagnosticsAt(uri, i - 1) # {}
            /\ (text # << >> /\ text[Len(text)] = 10) =>
                  LET n == Cardinality({ j \in 1..Len(text) : text[j] = 10 })
                  IN  /\ d # << >>
                      /\ d[Len(d)].severity = "Warning"
                      /\ d[Len(d)].range = [start |-> [line |-> n, character |-> 0],
                                            end   |-> [line |-> n, character |-> 0]]

C3_Witness ==
    /\ "file:///a.md" \in DOMAIN published
    /\ documents["file:///a.md"] = <<104, 10>>
    /\ Len(published["file:///a.md"]) = 2
    /\ published["file:///a.md"][1].severity = "Error"
    /\ published["file:///a.md"][1].range.end = [line |-> 0, character |-> 1]
    /\ published["file:///a.md"][2].severity = "Warning"
    /\ published["file:///a.md"][2].range.end = [line |-> 1, character |-> 0]

\* what a validated line shows of the predicate: a line that is not empty
\* after trimming has no diagnostic exactly when the predicate accepted it
AcceptedLines(Starts(_)) ==
    \A uri \in DOMAIN published :
        LET lines == linesOf(uri)
        IN  \A i \in 1..Len(lines) :
                LET t == trim(lines[i])
                IN  /\ checkIsStartWithEmoji(lines[i]) <=> Starts(t)
                    /\ t # << >> => (diagnosticsAt(uri, i - 1) = {} <=> Starts(t))

\* C4 as amended: checkIsStartWithEmoji(text) is true exactly when the
\* trimmed text starts with U+00A9, U+00AE, a code unit in U+2000-U+3300
\* (both ends included), or one of U+D83C, U+D83D, U+D83E followed by a
\* code unit in U+D000-U+DFFF; what stands at a later position never makes
\* it true.
C4_PrefixRuleOfTheCode == AcceptedLines(StartsQualifying)

\* C4 as claimed: the range is U+2000-U+33FF and the surrogate alternative
\* is a supplementary character with one of the three high surrogates.
C4_PrefixRuleAsClaimed == AcceptedLines(StartsAsWorded)

C4_Witness ==
    /\ "file:///a.md" \in DOMAIN published
    /\ documents["file:///a.md"] = <<13057>>
    /\ Len(published["file:///a.md"]) = 1
    /\ published["file:///a.md"][1].severity = "Error"

\* C5: a completion request on a line of a known document that is empty
\* (or empty after trimming) returns the three fixed items, in order, with
\* data tags 1, 2, 3.
C5_EmptyLineGetsThreeItems ==
    (CompletionOnLine /\ CursorText = << >>) => reply.items = ThreeItems

\* C6 as amended: a request on a line whose trimmed, lower-cased text is
\* "hi" returns the three fixed items ("hi" is a substring of "history");
\* a request returns the empty list for every non-empty line text that
\* neither starts with a qualifying emoji nor is a substring of "notice",
\* "history" or "hot".
C6_NoMatchGetsNothing ==
    CompletionOnLine =>
        /\ CursorText = <<104, 105>> => reply.items = ThreeItems
        /\ ( /\ CursorText # << >>
             /\ ~StartsQualifying(CursorText)
             /\ ~IsSubstringOfLastWord(CursorText) ) => reply.items = << >>

\* C6 as claimed: the request on "hi" returns the empty list, as does
\* every non-empty text that neither starts with a qualifying emoji nor is
\* a substring of "notice", "history" or "hot".
C6_HiGetsNothing ==
    CompletionOnLine =>
        /\ CursorText = <<104, 105>> => reply.items = << >>
        /\ ( /\ CursorText # << >>
             /\ ~StartsQualifying(CursorText)
             /\ ~IsSubstringOfLastWord(CursorText) ) => reply.items = << >>

C6_Witness ==
    /\ CompletionOnLine
    /\ documents["file:///a.md"] = <<105, 104>>
    /\ reply.items = << >>

\* C7: for every non-empty trimmed, lower-cased line text that starts with
\* a qualifying emoji or is a substring of the lower-cased last word of a
\* label, the request returns the three fixed items whatever the cursor's
\* character offset; every completion reply is that list or the empty list.
C7_MatchGetsThreeItems ==
    reply.kind = "completion" =>
        /\ reply.items \in {ThreeItems, << >>}
        /\ ( /\ CompletionOnLine
             /\ CursorText # << >>
             /\ StartsQualifying(CursorText) \/ IsSubstringOfLastWord(CursorText) )
           => reply.items = ThreeItems

C7_Witness ==
    /\ CompletionOnLine
    /\ documents["file:///a.md"] = <<32, 105>>
    /\ reply.position = [line |-> 0, character |-> 1]
    /\ reply.items = ThreeItems

\* C8: resolve returns the item it was given, with detail and
\* documentation set from the fixed table for the data tags 1, 2, 3, and
\* with nothing set or changed for any other tag (an item that came
\* without detail and documentation goes back without them).
C8_ResolveTable ==
    reply.kind = "resolve" =>
        LET in  == reply.request
            out == reply.item
        IN  /\ out.label = in.label /\ out.kind = in.kind /\ out.data = in.data
            /\ in.data = 1 =>
                  /\ out.detail = "Notice"
                  /\ out.documentation = "notification or warning of something."
            /\ in.data = 2 =>
                  /\ out.detail = "History"
                  /\ out.documentation =
                       "the whole series of past events connected with someone or something."
            /\ in.data = 3 =>
                  /\ out.detail = "Hot"
                  /\ out.documentation = "new and exciting things."
            /\ in.data \notin {1, 2, 3} => out = in /\ DOMAIN out = DOMAIN in

C8_Witness ==
    /\ reply.kind = "resolve"
    /\ reply.request.data = 99
    /\ DOMAIN reply.item = {"label", "kind", "data"}

\* C9: in every published set an Error diagnostic carries exactly one
\* relatedInformation entry (same URI, same range, message "sentence
\* syntax error") if and only if the capability flag is true; a Warning
\* never carries relatedInformation.
C9_RelatedInformation ==
    \A uri \in DOMAIN published :
        \A k \in 1..Len(published[uri]) :
            LET d == published[uri][k]
            IN  /\ d.severity = "Warning" => "relatedInformation" \notin DOMAIN d
                /\ d.severity = "Error" =>
                      /\ "relatedInformation" \in DOMAIN d
                            <=> hasDiagnosticRelatedInformationCapability
                      /\ "relatedInformation" \in DOMAIN d =>
                            d.relatedInformation =
                              << [location |-> [uri |-> uri, range |-> d.range],
                                  message  |-> "sentence syntax error"] >>

C9_Witness ==
    /\ hasDiagnosticRelatedInformationCapability
    /\ "file:///a.md" \in DOMAIN published
    /\ documents["file:///a.md"] = <<104, 10>>
    /\ "relatedInformation" \in DOMAIN published["file:///a.md"][1]
    /\ published["file:///a.md"][2].severity = "Warning"

\* C10: once the initialization handler has recorded the capability flag,
\* no step writes it again (the document-changed, completion and resolve
\* handlers leave it unchanged), and a step that leaves every document's
\* text as it was - the same text validated again - leaves the published
\* sets as they were.
C10_FlagWrittenOnce ==
    [][ /\ initialized =>
              hasDiagnosticRelatedInformationCapability' =
                hasDiagnosticRelatedInformationCapability
        /\ documents' = documents => published' = published ]_vars

C10_Witness ==
    /\ initialized
    /\ hasDiagnosticRelatedInformationCapability
    /\ DOMAIN documents = URIs
    /\ reply.kind = "resolve"

====
